---- MODULE Spec2Model ----
(***************************************************************************)
(* The recipe API: the token-authenticated, owner-scoped viewsets of       *)
(* app/recipe/views.py (tags, ingredients, recipes, upload-image) over the *)
(* relational store, and the user endpoints (create, token, me) that the   *)
(* tests of app/user exercise.  One action is one HTTP request, handled    *)
(* whole: authentication, permission, queryset, validation, save and the   *)
(* response.                                                               *)
(***************************************************************************)
EXTENDS Integers, Sequences, FiniteSets, TLC

VARIABLES
    users,              \* the user table: email -> [password, name]
    tokens,             \* the token table: rows [key, user]
    tags,               \* the Tag table: id (index) -> [user, name]
    ingredients,        \* the Ingredient table: id (index) -> [user, name]
    recipes,            \* the Recipe table: id -> row
    recipe_tags,        \* the Recipe.tags join table: <<recipe id, tag id>>
    recipe_ingredients, \* the Recipe.ingredients join table
    recipe_seq,         \* the last id the Recipe table's sequence gave out
    req,                \* the last request
    res                 \* its response: [status_code, data]

store == <<users, tokens, tags, ingredients, recipes,
           recipe_tags, recipe_ingredients, recipe_seq>>
vars == <<users, tokens, tags, ingredients, recipes,
          recipe_tags, recipe_ingredients, recipe_seq, req, res>>

----------------------------------------------------------------------------
(* Bounds and input domains *)

\* rows ever inserted into the Tag, Ingredient and Recipe tables together
MaxRows == 2

Emails == {"rich@gmail.com", "test@gmail.com"}
TokenKeys == {"key1", "key2"}
NoToken == "none"         \* a request without an Authorization header
BadToken == "badkey"      \* a key that is in no row of the token table
AnonymousUser == "AnonymousUser"

HTTP_200_OK == 200
HTTP_201_CREATED == 201
HTTP_204_NO_CONTENT == 204
HTTP_400_BAD_REQUEST == 400
HTTP_401_UNAUTHORIZED == 401
HTTP_404_NOT_FOUND == 404
HTTP_405_METHOD_NOT_ALLOWED == 405

\* names in alphabetical order; "" is the blank name a serializer rejects
NameOrder == <<"Carrot", "Kale">>
Images == {"first.jpg", "second.jpg"}   \* the files that decode as images

NoImage == "null"   \* Recipe.image of a recipe without one

Names == {NameOrder[i] : i \in 1..Len(NameOrder)}
NameRank(n) == CHOOSE i \in 1..Len(NameOrder) : NameOrder[i] = n

----------------------------------------------------------------------------
(* Authentication and permission: TokenAuthentication, IsAuthenticated *)

\* TokenAuthentication: the user whose token row holds the key, or nobody
TokenAuthentication(token) ==
    IF \E row \in tokens : row.key = token
    THEN (CHOOSE row \in tokens : row.key = token).user
    ELSE AnonymousUser

\* a viewset without permission_classes: every request passes
IsAuthenticated_AllowAny(token) == TRUE

\* IsAuthenticated: the request resolved to a user
IsAuthenticated(token) == TokenAuthentication(token) # AnonymousUser

NoData == [f \in {} |-> 0]   \* a request without a body

Unauthorized == [status_code |-> HTTP_401_UNAUTHORIZED, kind |-> "error", data |-> NoData]
NotFound == [status_code |-> HTTP_404_NOT_FOUND, kind |-> "error", data |-> NoData]
BadRequest == [status_code |-> HTTP_400_BAD_REQUEST, kind |-> "error", data |-> NoData]

----------------------------------------------------------------------------
(* Tag and Ingredient: BaseRecipeAttrViewSet *)

RowCount == Len(tags) + Len(ingredients) + recipe_seq

\* every ordering of the ids in S
Orderings(S) ==
    {s \in [1..Cardinality(S) -> S] : \A i, j \in 1..Cardinality(S) : i # j => s[i] # s[j]}

\* a queryset without the filter on the user
FilterUser_All(table, user) == DOMAIN table

\* queryset.filter(user=self.request.user)
FilterUser(table, user) == {i \in DOMAIN table : table[i].user = user}

\* .order_by('-name'): descending names, rows of equal name in any order
OrderByNameDesc(table, ids) ==
    {s \in Orderings(ids) :
        \A i, j \in 1..Len(s) :
            i < j => NameRank(table[s[i]].name) >= NameRank(table[s[j]].name)}

\* BaseRecipeAttrViewSet.get_queryset: the orderings a list may return
BaseRecipeAttrViewSet_get_queryset(table, user) ==
    OrderByNameDesc(table, FilterUser(table, user))

\* TagSerializer, IngredientSerializer: fields id and name
AttrSerializer(table, id) == [id |-> id, name |-> table[id].name]

\* the serializer's is_valid: a blank name is rejected
AttrIsValid(data) == "name" \in DOMAIN data /\ data.name # ""

\* BaseRecipeAttrViewSet.perform_create: serializer.save(user=self.request.user)
BaseRecipeAttrViewSet_perform_create(table, data, user) ==
    Append(table, [user |-> user, name |-> data.name])

AttrRequest(endpoint, action, token, data, assigned_only) ==
    [endpoint |-> endpoint, action |-> action, token |-> token, pk |-> 0,
     data |-> data, assigned_only |-> assigned_only]

\* TagViewSet.queryset, IngredientViewSet.queryset
Queryset(endpoint) == IF endpoint = "tags" THEN tags ELSE ingredients

\* GET /recipe/tags/, GET /recipe/ingredients/ : ListModelMixin.list over
\* get_queryset; the assigned_only query parameter is read nowhere
AttrList(endpoint, token, assigned_only) ==
    /\ req' = AttrRequest(endpoint, "list", token, NoData, assigned_only)
    /\ IF ~IsAuthenticated(token)
       THEN res' = Unauthorized
       ELSE \E qs \in BaseRecipeAttrViewSet_get_queryset(Queryset(endpoint),
                                                        TokenAuthentication(token)) :
               res' = [status_code |-> HTTP_200_OK, kind |-> "list",
                       data |-> [i \in 1..Len(qs) |->
                                    AttrSerializer(Queryset(endpoint), qs[i])]]
    /\ UNCHANGED store

\* POST /recipe/tags/, POST /recipe/ingredients/ : CreateModelMixin.create
AttrCreate(endpoint, token, data) ==
    /\ RowCount < MaxRows
    /\ req' = AttrRequest(endpoint, "create", token, data, 0)
    /\ IF ~IsAuthenticated(token)
       THEN res' = Unauthorized /\ UNCHANGED <<tags, ingredients>>
       ELSE IF ~AttrIsValid(data)
       THEN res' = BadRequest /\ UNCHANGED <<tags, ingredients>>
       ELSE LET table == BaseRecipeAttrViewSet_perform_create(
                             Queryset(endpoint), data, TokenAuthentication(token))
            IN  /\ IF endpoint = "tags"
                   THEN tags' = table /\ UNCHANGED ingredients
                   ELSE ingredients' = table /\ UNCHANGED tags
                /\ res' = [status_code |-> HTTP_201_CREATED, kind |-> "object",
                           data |-> <<AttrSerializer(table, Len(table))>>]
    /\ UNCHANGED <<users, tokens, recipes, recipe_tags, recipe_ingredients, recipe_seq>>

\* any other request under /recipe/tags/ or /recipe/ingredients/: the router
\* registers no detail route for a viewset without retrieve, update or destroy
AttrDetail(endpoint, action, token, pk) ==
    /\ req' = [endpoint |-> endpoint, action |-> action, token |-> token, pk |-> pk,
               data |-> NoData, assigned_only |-> 0]
    /\ res' = NotFound
    /\ UNCHANGED store

----------------------------------------------------------------------------
(* Recipe: RecipeViewset *)

\* a queryset without order_by: the database returns the rows in any order
Unordered(ids) == Orderings(ids)

\* get_queryset returning self.queryset as it is
RecipeViewset_get_queryset_All(user) == DOMAIN recipes

\* RecipeViewset.get_queryset: self.queryset.filter(user=self.request.user)
RecipeViewset_get_queryset(user) == {id \in DOMAIN recipes : recipes[id].user = user}

\* recipe.tags.all(), recipe.ingredients.all(): the ids the join table links
TagsOf(joins, id) == {j[2] : j \in {k \in joins : k[1] = id}}

\* RecipeSerializer: the relations as primary keys
RecipeSerializer(rows, rtags, rings, id) ==
    [id |-> id, title |-> rows[id].title,
     ingredients |-> TagsOf(rings, id), tags |-> TagsOf(rtags, id),
     time_minutes |-> rows[id].time_minutes, price |-> rows[id].price,
     link |-> rows[id].link]

\* RecipeDetailSerializer: the relations nested, each as its own serializer gives it
RecipeDetailSerializer(rows, rtags, rings, id) ==
    [id |-> id, title |-> rows[id].title,
     ingredients |-> {AttrSerializer(ingredients, i) : i \in TagsOf(rings, id)},
     tags |-> {AttrSerializer(tags, i) : i \in TagsOf(rtags, id)},
     time_minutes |-> rows[id].time_minutes, price |-> rows[id].price,
     link |-> rows[id].link]

\* RecipeImageSerializer: fields id and image
RecipeImageSerializer(rows, id) == [id |-> id, image |-> rows[id].image]

\* RecipeViewset.get_serializer_class
RecipeViewset_get_serializer_class(action) ==
    IF action = "retrieve" THEN "RecipeDetailSerializer"
    ELSE IF action = "upload_image" THEN "RecipeImageSerializer"
    ELSE "RecipeSerializer"

\* self.get_serializer(instance).data: the row as the action's serializer gives it
Serialize(action, rows, rtags, rings, id) ==
    LET class == RecipeViewset_get_serializer_class(action)
    IN  IF class = "RecipeDetailSerializer"
        THEN RecipeDetailSerializer(rows, rtags, rings, id)
        ELSE IF class = "RecipeImageSerializer"
        THEN RecipeImageSerializer(rows, id)
        ELSE RecipeSerializer(rows, rtags, rings, id)

\* serializer.is_valid of RecipeSerializer: the required fields (all of them on a
\* full update or a create), no blank title, no negative number, only ids of
\* existing tags and ingredients (of any owner)
RecipeIsValid(data, partial) ==
    /\ partial \/ {"title", "time_minutes", "price"} \subseteq DOMAIN data
    /\ "title" \in DOMAIN data => data.title # ""
    /\ "time_minutes" \in DOMAIN data => data.time_minutes >= 0
    /\ "price" \in DOMAIN data => data.price >= 0
    /\ "tags" \in DOMAIN data => data.tags \subseteq DOMAIN tags
    /\ "ingredients" \in DOMAIN data => data.ingredients \subseteq DOMAIN ingredients

\* serializer.is_valid of RecipeImageSerializer: image is there and decodes
ImageIsValid(data) == "image" \in DOMAIN data /\ data.image \in Images

\* the value a writable scalar field takes: the payload's, else the row's
Field(data, name, old) == IF name \in DOMAIN data THEN data[name] ELSE old

\* the value a relation takes: the payload's; without one a partial update
\* keeps the links and a full one (a form without the field) clears them
Relation(data, name, old, partial) ==
    IF name \in DOMAIN data THEN data[name] ELSE IF partial THEN old ELSE {}

\* the join table with recipe id's links replaced by links to ids
SetLinks(joins, id, ids) == {j \in joins : j[1] # id} \cup {<<id, i>> : i \in ids}

RecipeRequest(action, token, pk, data) ==
    [endpoint |-> "recipes", action |-> action, token |-> token, pk |-> pk,
     data |-> data, assigned_only |-> 0]
\* GenericAPIView.get_object over get_queryset
RecipeViewset_get_object(user, pk) == pk \in RecipeViewset_get_queryset(user)

Ok(status, kind, data) == [status_code |-> status, kind |-> kind, data |-> data]

\* GET /recipe/recipes/ : ListModelMixin.list over get_queryset
RecipeList(token) ==
    /\ req' = RecipeRequest("list", token, 0, NoData)
    /\ IF ~IsAuthenticated(token)
       THEN res' = Unauthorized
       ELSE \E qs \in Unordered(RecipeViewset_get_queryset(TokenAuthentication(token))) :
               res' = Ok(HTTP_200_OK, "list",
                         [i \in 1..Len(qs) |->
                            Serialize("list", recipes, recipe_tags, recipe_ingredients, qs[i])])
    /\ UNCHANGED store

\* perform_create calling serializer.save() with the payload's user
RecipeViewset_perform_create_Payload(data, user) ==
    [user |-> Field(data, "user", user), title |-> data.title,
     time_minutes |-> data.time_minutes, price |-> data.price,
     link |-> Field(data, "link", ""), image |-> NoImage]

\* RecipeViewset.perform_create: serializer.save(user=self.request.user)
RecipeViewset_perform_create(data, user) ==
    [user |-> user, title |-> data.title, time_minutes |-> data.time_minutes,
     price |-> data.price, link |-> Field(data, "link", ""), image |-> NoImage]

\* POST /recipe/recipes/ : CreateModelMixin.create
RecipeCreate(token, data) ==
    /\ RowCount < MaxRows
    /\ req' = RecipeRequest("create", token, 0, data)
    /\ IF ~IsAuthenticated(token)
       THEN res' = Unauthorized
            /\ UNCHANGED <<recipes, recipe_tags, recipe_ingredients, recipe_seq>>
       ELSE IF ~RecipeIsValid(data, FALSE)
       THEN res' = BadRequest
            /\ UNCHANGED <<recipes, recipe_tags, recipe_ingredients, recipe_seq>>
       ELSE LET id == recipe_seq + 1 IN
            /\ recipe_seq' = id
            /\ recipes' = (id :> RecipeViewset_perform_create(data, TokenAuthentication(token)))
                              @@ recipes
            /\ recipe_tags' = SetLinks(recipe_tags, id, Relation(data, "tags", {}, FALSE))
            /\ recipe_ingredients' =
                   SetLinks(recipe_ingredients, id, Relation(data, "ingredients", {}, FALSE))
            /\ res' = Ok(HTTP_201_CREATED, "object",
                         <<Serialize("create", recipes', recipe_tags', recipe_ingredients', id)>>)
    /\ UNCHANGED <<users, tokens, tags, ingredients>>

\* GET /recipe/recipes/{pk}/ : RetrieveModelMixin.retrieve
RecipeRetrieve(token, pk) ==
    /\ req' = RecipeRequest("retrieve", token, pk, NoData)
    /\ IF ~IsAuthenticated(token)
       THEN res' = Unauthorized
       ELSE IF ~RecipeViewset_get_object(TokenAuthentication(token), pk)
       THEN res' = NotFound
       ELSE res' = Ok(HTTP_200_OK, "detail",
                      <<Serialize("retrieve", recipes, recipe_tags, recipe_ingredients, pk)>>)
    /\ UNCHANGED store

\* serializer.save() on an existing row: perform_update passes no user, and
\* the serializer has no user field
RecipeSerializer_update(row, data) ==
    [row EXCEPT !.title = Field(data, "title", @),
                !.time_minutes = Field(data, "time_minutes", @),
                !.price = Field(data, "price", @),
                !.link = Field(data, "link", @)]

\* UpdateModelMixin.update: PUT (partial = FALSE) and PATCH (partial = TRUE)
RecipeViewset_update(action, token, pk, data, partial) ==
    /\ req' = RecipeRequest(action, token, pk, data)
    /\ IF ~IsAuthenticated(token)
       THEN res' = Unauthorized /\ UNCHANGED <<recipes, recipe_tags, recipe_ingredients>>
       ELSE IF ~RecipeViewset_get_object(TokenAuthentication(token), pk)
       THEN res' = NotFound /\ UNCHANGED <<recipes, recipe_tags, recipe_ingredients>>
       ELSE IF ~RecipeIsValid(data, partial)
       THEN res' = BadRequest /\ UNCHANGED <<recipes, recipe_tags, recipe_ingredients>>
       ELSE /\ recipes' = [recipes EXCEPT ![pk] = RecipeSerializer_update(@, data)]
            /\ recipe_tags' =
                   SetLinks(recipe_tags, pk,
                            Relation(data, "tags", TagsOf(recipe_tags, pk), partial))
            /\ recipe_ingredients' =
                   SetLinks(recipe_ingredients, pk,
                            Relation(data, "ingredients",
                                     TagsOf(recipe_ingredients, pk), partial))
            /\ res' = Ok(HTTP_200_OK, "object",
                         <<Serialize(action, recipes', recipe_tags', recipe_ingredients', pk)>>)
    /\ UNCHANGED <<users, tokens, tags, ingredients, recipe_seq>>

\* a PUT handled as update(partial=True)
RecipeUpdate_Partial(token, pk, data) ==
    RecipeViewset_update("update", token, pk, data, TRUE)

\* PUT /recipe/recipes/{pk}/
RecipeUpdate(token, pk, data) == RecipeViewset_update("update", token, pk, data, FALSE)

\* PATCH /recipe/recipes/{pk}/
RecipePartialUpdate(token, pk, data) ==
    RecipeViewset_update("partial_update", token, pk, data, TRUE)

\* a delete that leaves the join rows behind
DeleteLinks_Keep(joins, pk) == joins

\* the rows left by instance.delete(): the row goes, and with it its rows
\* of the two join tables; Tag and Ingredient rows stay
DeleteLinks(joins, pk) == {j \in joins : j[1] # pk}

\* a viewset built without DestroyModelMixin: DELETE is not allowed
RecipeDestroy_NoMixin(token, pk) ==
    /\ req' = RecipeRequest("destroy", token, pk, NoData)
    /\ res' = IF IsAuthenticated(token)
              THEN [status_code |-> HTTP_405_METHOD_NOT_ALLOWED, kind |-> "error",
                    data |-> NoData]
              ELSE Unauthorized
    /\ UNCHANGED store

\* DELETE /recipe/recipes/{pk}/ : DestroyModelMixin.destroy
RecipeDestroy(token, pk) ==
    /\ req' = RecipeRequest("destroy", token, pk, NoData)
    /\ IF ~IsAuthenticated(token)
       THEN res' = Unauthorized /\ UNCHANGED <<recipes, recipe_tags, recipe_ingredients>>
       ELSE IF ~RecipeViewset_get_object(TokenAuthentication(token), pk)
       THEN res' = NotFound /\ UNCHANGED <<recipes, recipe_tags, recipe_ingredients>>
       ELSE /\ recipes' = [id \in DOMAIN recipes \ {pk} |-> recipes[id]]
            /\ recipe_tags' = DeleteLinks(recipe_tags, pk)
            /\ recipe_ingredients' = DeleteLinks(recipe_ingredients, pk)
            /\ res' = Ok(HTTP_204_NO_CONTENT, "empty", NoData)
    /\ UNCHANGED <<users, tokens, tags, ingredients, recipe_seq>>

\* upload_image saving without asking serializer.is_valid()
RecipeViewset_upload_image_NoCheck(token, pk, data) ==
    /\ req' = RecipeRequest("upload_image", token, pk, data)
    /\ IF ~IsAuthenticated(token)
       THEN res' = Unauthorized /\ UNCHANGED recipes
       ELSE IF ~RecipeViewset_get_object(TokenAuthentication(token), pk)
       THEN res' = NotFound /\ UNCHANGED recipes
       ELSE /\ recipes' = [recipes EXCEPT ![pk].image = Field(data, "image", NoImage)]
            /\ res' = Ok(HTTP_200_OK, "object",
                         <<Serialize("upload_image", recipes', recipe_tags,
                                     recipe_ingredients, pk)>>)
    /\ UNCHANGED <<users, tokens, tags, ingredients,
                   recipe_tags, recipe_ingredients, recipe_seq>>

\* POST /recipe/recipes/{pk}/upload-image/ : RecipeViewset.upload_image
RecipeViewset_upload_image(token, pk, data) ==
    /\ req' = RecipeRequest("upload_image", token, pk, data)
    /\ IF ~IsAuthenticated(token)
       THEN res' = Unauthorized /\ UNCHANGED recipes
       ELSE IF ~RecipeViewset_get_object(TokenAuthentication(token), pk)
       THEN res' = NotFound /\ UNCHANGED recipes
       ELSE IF ImageIsValid(data)
       THEN /\ recipes' = [recipes EXCEPT ![pk].image = data.image]
            /\ res' = Ok(HTTP_200_OK, "object",
                         <<Serialize("upload_image", recipes', recipe_tags,
                                     recipe_ingredients, pk)>>)
       ELSE res' = BadRequest /\ UNCHANGED recipes
    /\ UNCHANGED <<users, tokens, tags, ingredients,
                   recipe_tags, recipe_ingredients, recipe_seq>>

----------------------------------------------------------------------------
(* The user endpoints: create, token, me *)

\* the shortest password the user serializer accepts
MinPasswordLength == 5

\* set_password: the row holds the hash, never the password
make_password(password) == <<"hashed", password>>
check_password(password, hashed) == make_password(password) = hashed

UserRequest(endpoint, action, token, data) ==
    [endpoint |-> endpoint, action |-> action, token |-> token, pk |-> 0,
     data |-> data, assigned_only |-> 0]

\* UserSerializer: fields email, password (write only) and name
UserSerializer(rows, email) == [email |-> email, name |-> rows[email].name]

\* is_valid without the unique validator of the email field
UserIsValid_NoUnique(data) ==
    /\ {"email", "password"} \subseteq DOMAIN data
    /\ data.email \in Emails
    /\ Len(data.password) >= MinPasswordLength

\* UserSerializer.is_valid on create: a well-formed email that no row has,
\* and a password of the minimum length
UserIsValid(data) ==
    /\ {"email", "password"} \subseteq DOMAIN data
    /\ data.email \in Emails
    /\ data.email \notin DOMAIN users
    /\ Len(data.password) >= MinPasswordLength

\* POST /user/create/ : no authentication
CreateUserView(data) ==
    /\ req' = UserRequest("create", "POST", NoToken, data)
    /\ IF ~UserIsValid(data)
       THEN res' = BadRequest /\ UNCHANGED users
       ELSE /\ users' = (data.email :> [password |-> make_password(data.password),
                                        name |-> Field(data, "name", "")]) @@ users
            /\ res' = Ok(HTTP_201_CREATED, "object", <<UserSerializer(users', data.email)>>)
    /\ UNCHANGED <<tokens, tags, ingredients, recipes,
                   recipe_tags, recipe_ingredients, recipe_seq>>

\* AuthTokenSerializer.validate: both fields filled in, and authenticate()
\* finds the user whose password this is
AuthTokenIsValid(data) ==
    /\ {"email", "password"} \subseteq DOMAIN data
    /\ data.email # "" /\ data.password # ""
    /\ data.email \in DOMAIN users
    /\ check_password(data.password, users[data.email].password)

\* a token view that calls Token.objects.create(user=user) every time
CreateTokenView_Create(data) ==
    /\ req' = UserRequest("token", "POST", NoToken, data)
    /\ IF ~AuthTokenIsValid(data)
       THEN res' = BadRequest /\ UNCHANGED tokens
       ELSE \E key \in TokenKeys \ {row.key : row \in tokens} :
               /\ tokens' = tokens \cup {[key |-> key, user |-> data.email]}
               /\ res' = Ok(HTTP_200_OK, "token", [token |-> key])
    /\ UNCHANGED <<users, tags, ingredients, recipes,
                   recipe_tags, recipe_ingredients, recipe_seq>>

\* POST /user/token/ : Token.objects.get_or_create(user=user)
CreateTokenView(data) ==
    /\ req' = UserRequest("token", "POST", NoToken, data)
    /\ IF ~AuthTokenIsValid(data)
       THEN res' = BadRequest /\ UNCHANGED tokens
       ELSE IF \E row \in tokens : row.user = data.email
       THEN res' = Ok(HTTP_200_OK, "token",
                      [token |-> (CHOOSE row \in tokens : row.user = data.email).key])
            /\ UNCHANGED tokens
       ELSE \E key \in TokenKeys \ {row.key : row \in tokens} :
               /\ tokens' = tokens \cup {[key |-> key, user |-> data.email]}
               /\ res' = Ok(HTTP_200_OK, "token", [token |-> key])
    /\ UNCHANGED <<users, tags, ingredients, recipes,
                   recipe_tags, recipe_ingredients, recipe_seq>>

\* UserSerializer.is_valid on a partial update of the caller's own row
UserUpdateIsValid(data) ==
    "password" \in DOMAIN data => Len(data.password) >= MinPasswordLength

\* UserSerializer.update: the name, and the password through set_password
UserSerializer_update(row, data) ==
    [row EXCEPT !.name = Field(data, "name", @),
                !.password = IF "password" \in DOMAIN data
                             THEN make_password(data.password) ELSE @]

\* GET, PATCH /user/me/ : the caller's own row
ManageUserView(method, token, data) ==
    /\ req' = UserRequest("me", method, token, data)
    /\ IF ~IsAuthenticated(token)
       THEN res' = Unauthorized /\ UNCHANGED users
       ELSE IF method = "GET"
       THEN res' = Ok(HTTP_200_OK, "object", <<UserSerializer(users, TokenAuthentication(token))>>)
            /\ UNCHANGED users
       ELSE IF ~UserUpdateIsValid(data)
       THEN res' = BadRequest /\ UNCHANGED users
       ELSE /\ users' = [users EXCEPT ![TokenAuthentication(token)] =
                                          UserSerializer_update(@, data)]
            /\ res' = Ok(HTTP_200_OK, "object",
                         <<UserSerializer(users', TokenAuthentication(token))>>)
    /\ UNCHANGED <<tokens, tags, ingredients, recipes,
                   recipe_tags, recipe_ingredients, recipe_seq>>

----------------------------------------------------------------------------
(* The requests *)

TokenInputs == TokenKeys \cup {NoToken, BadToken}
Pks == 1..MaxRows
AttrEndpoints == {"tags", "ingredients"}

RecipeUser == "rich@gmail.com"
OtherUser == "test@gmail.com"

\* a payload field naming an owner
UserPart == {[user |-> u] : u \in Emails}

\* a relation field of a recipe payload: absent, any set of existing ids, or
\* the id of no row; a payload names one relation at most
TagsPart ==
    {NoData} \cup {[tags |-> T] : T \in SUBSET DOMAIN tags} \cup {[tags |-> {Len(tags) + 1}]}
IngredientsPart ==
    {NoData} \cup {[ingredients |-> T] : T \in SUBSET DOMAIN ingredients}
        \cup {[ingredients |-> {Len(ingredients) + 1}]}
Relations == TagsPart \cup IngredientsPart

Cake == [title |-> "Cake", time_minutes |-> 40, price |-> 20]
HamHack == [title |-> "Ham hack", time_minutes |-> 38, price |-> 33]
BlankTitle == [title |-> "", time_minutes |-> 40, price |-> 20]
NegativeTime == [title |-> "Cake", time_minutes |-> 0 - 1, price |-> 20]

\* a request that is refused before its body is read (no user, no such
\* recipe of the user) is tried with the one body d0, any other with every body
Bodies(t, pk, D, d0) ==
    IF IsAuthenticated(t) /\ (pk = 0 \/ RecipeViewset_get_object(TokenAuthentication(t), pk))
    THEN D ELSE {d0}

NoRequest ==
    [endpoint |-> "none", action |-> "none", token |-> NoToken, pk |-> 0,
     data |-> NoData, assigned_only |-> 0]
NoResponse == [status_code |-> 0, kind |-> "none", data |-> NoData]

NoRows ==
    /\ tags = <<>>
    /\ ingredients = <<>>
    /\ recipes = NoData
    /\ recipe_tags = {}
    /\ recipe_ingredients = {}
    /\ recipe_seq = 0
    /\ req = NoRequest
    /\ res = NoResponse

----------------------------------------------------------------------------
(* Two users and whose rows are whose: every request with each user's token,
   with no token and with a token of no user; the bodies name relations and
   owners and leave the title and the numbers as they are *)

AttrPayloads == {[name |-> "Kale"], [name |-> ""]} \cup {[name |-> "Kale"] @@ u : u \in UserPart}
CreatePayloads == {Cake @@ e : e \in Relations \cup UserPart} \cup {BlankTitle}
PutPayloads == {Cake @@ e : e \in Relations \cup UserPart} \cup {[title |-> "Cake"]}
PatchPayloads == Relations \cup UserPart \cup {[time_minutes |-> 0 - 1]}
ImagePayloads == {[image |-> "first.jpg"], [image |-> "notimage"]}

\* the tables after both users registered and each obtained a token
Init ==
    /\ users = (RecipeUser :> [password |-> make_password("password12345"), name |-> ""])
                  @@ (OtherUser :> [password |-> make_password("password3456"), name |-> ""])
    /\ tokens = {[key |-> "key1", user |-> RecipeUser], [key |-> "key2", user |-> OtherUser]}
    /\ NoRows

Next ==
    \/ \E e \in AttrEndpoints, t \in TokenInputs :
           \E a \in (IF IsAuthenticated(t) THEN {0, 1} ELSE {0}) : AttrList(e, t, a)
    \/ \E e \in AttrEndpoints, t \in TokenInputs :
           \E d \in Bodies(t, 0, AttrPayloads, [name |-> "Kale"]) : AttrCreate(e, t, d)
    \/ \E e \in AttrEndpoints, t \in TokenInputs :
           \E pk \in DOMAIN Queryset(e) : AttrDetail(e, "destroy", t, pk)
    \/ \E t \in TokenInputs : RecipeList(t)
    \/ \E t \in TokenInputs : \E d \in Bodies(t, 0, CreatePayloads, Cake) : RecipeCreate(t, d)
    \/ \E t \in TokenInputs, pk \in Pks : RecipeRetrieve(t, pk)
    \/ \E t \in TokenInputs, pk \in Pks :
           \E d \in Bodies(t, pk, PutPayloads, Cake) : RecipeUpdate(t, pk, d)
    \/ \E t \in TokenInputs, pk \in Pks :
           \E d \in Bodies(t, pk, PatchPayloads, [tags |-> {}]) : RecipePartialUpdate(t, pk, d)
    \/ \E t \in TokenInputs, pk \in Pks : RecipeDestroy(t, pk)
    \/ \E t \in TokenInputs, pk \in Pks :
           \E d \in Bodies(t, pk, ImagePayloads, [image |-> "first.jpg"]) :
               RecipeViewset_upload_image(t, pk, d)
    \/ \E t \in TokenInputs : ManageUserView("GET", t, NoData)
    \/ \E t \in {NoToken, BadToken} : ManageUserView("PATCH", t, [name |-> "new name"])

Spec == Init /\ [][Next]_vars

----------------------------------------------------------------------------
(* One user and the fields of the user's rows: the bodies change the title,
   the numbers, the relations and the image file *)

FieldTokens == {"key1", NoToken}
FieldAttrPayloads == {[name |-> n] : n \in Names \cup {""}}
FieldCreatePayloads == {Cake @@ e : e \in Relations} \cup {BlankTitle, NegativeTime}
FieldPutPayloads == {HamHack @@ e : e \in Relations} \cup {[title |-> "Ham hack"]}
FieldPatchPayloads == Relations \cup {[title |-> "Ham hack"], [time_minutes |-> 0 - 1]}
FieldImagePayloads == {NoData} \cup {[image |-> f] : f \in Images \cup {"notimage"}}

\* the tables after one user registered and obtained a token
InitFields ==
    /\ users = (RecipeUser :> [password |-> make_password("password12345"), name |-> ""])
    /\ tokens = {[key |-> "key1", user |-> RecipeUser]}
    /\ NoRows

NextFields ==
    \/ \E e \in AttrEndpoints, t \in FieldTokens :
           \E a \in (IF IsAuthenticated(t) THEN {0, 1} ELSE {0}) : AttrList(e, t, a)
    \/ \E e \in AttrEndpoints, t \in FieldTokens :
           \E d \in Bodies(t, 0, FieldAttrPayloads, [name |-> "Kale"]) : AttrCreate(e, t, d)
    \/ \E e \in AttrEndpoints, t \in FieldTokens :
           \E pk \in DOMAIN Queryset(e) : AttrDetail(e, "destroy", t, pk)
    \/ \E t \in FieldTokens : RecipeList(t)
    \/ \E t \in FieldTokens : \E d \in Bodies(t, 0, FieldCreatePayloads, Cake) : RecipeCreate(t, d)
    \/ \E t \in FieldTokens, pk \in Pks : RecipeRetrieve(t, pk)
    \/ \E t \in FieldTokens, pk \in Pks :
           \E d \in Bodies(t, pk, FieldPutPayloads, Cake) : RecipeUpdate(t, pk, d)
    \/ \E t \in FieldTokens, pk \in Pks :
           \E d \in Bodies(t, pk, FieldPatchPayloads, [tags |-> {}]) : RecipePartialUpdate(t, pk, d)
    \/ \E t \in FieldTokens, pk \in Pks : RecipeDestroy(t, pk)
    \/ \E t \in FieldTokens, pk \in Pks :
           \E d \in Bodies(t, pk, FieldImagePayloads, [image |-> "first.jpg"]) :
               RecipeViewset_upload_image(t, pk, d)

SpecFields == InitFields /\ [][NextFields]_vars

----------------------------------------------------------------------------
(* The user endpoints on their own, from the empty user table *)

EmailInputs == Emails \cup {"one", ""}          \* "one" is no email address
PasswordInputs == {"test1234", "testbad", "te", ""}
UserPayloads ==
    {[email |-> e, password |-> p] : e \in EmailInputs, p \in PasswordInputs}
        \cup {[email |-> e, password |-> "test1234", name |-> "Test name"] : e \in Emails}
MePayloads ==
    {[name |-> "new name"], [password |-> "testbad"], [password |-> "te"],
     [name |-> "new name", password |-> "test1234"]}

InitUser ==
    /\ users = NoData
    /\ tokens = {}
    /\ NoRows

NextUser ==
    \/ \E d \in UserPayloads : CreateUserView(d)
    \/ \E d \in UserPayloads : CreateTokenView(d)
    \/ \E t \in TokenInputs : ManageUserView("GET", t, NoData)
    \/ \E t \in TokenInputs, d \in MePayloads : ManageUserView("PATCH", t, d)

SpecUser == InitUser /\ [][NextUser]_vars

----------------------------------------------------------------------------
(* Properties *)

\* request.user of the last request
Caller == TokenAuthentication(req.token)
IdActions == {"retrieve", "update", "partial_update", "destroy", "upload_image"}
ListedIds == {res.data[i].id : i \in 1..Len(res.data)}
OwnedRecipes(u) == {id \in DOMAIN recipes : recipes[id].user = u}
OwnedRows(table, u) == {i \in DOMAIN table : table[i].user = u}

\* C1: a list of tags, ingredients or recipes holds only rows the caller
\* owns (none of another user), and without the assigned_only filter it
\* holds every row the caller owns
ListIsOwnersRows ==
    (req.action = "list" /\ res.status_code = HTTP_200_OK) =>
        LET owned == IF req.endpoint = "recipes" THEN OwnedRecipes(Caller)
                     ELSE OwnedRows(Queryset(req.endpoint), Caller)
        IN  /\ ListedIds \subseteq owned
            /\ req.assigned_only = 0 => owned \subseteq ListedIds
            /\ \A i \in 1..Len(res.data) :
                   res.data[i] =
                       IF req.endpoint = "recipes"
                       THEN RecipeSerializer(recipes, recipe_tags, recipe_ingredients,
                                             res.data[i].id)
                       ELSE AttrSerializer(Queryset(req.endpoint), res.data[i].id)

\* C1 witness: a user lists the tags while one tag is the caller's and
\* another tag is the other user's
ListAmongOthersRows ==
    /\ req.endpoint = "tags" /\ req.action = "list" /\ res.status_code = HTTP_200_OK
    /\ Len(res.data) = 1
    /\ \E i \in DOMAIN tags : tags[i].user # Caller

\* C2: a request on a recipe id by a user who owns no recipe of that id
\* (another user's recipe, or no recipe at all) is answered 404 and changes
\* nothing in the store
ForeignRecipeIsNotFound ==
    [][(/\ req'.endpoint = "recipes" /\ req'.action \in IdActions
        /\ IsAuthenticated(req'.token)
        /\ req'.pk \notin OwnedRecipes(TokenAuthentication(req'.token)))
       => (res' = NotFound /\ store' = store)]_vars

\* C2 witness: a user got 404 on the id of a recipe that another user owns
ForeignRecipeRequested ==
    /\ req.endpoint = "recipes" /\ req.action \in IdActions
    /\ IsAuthenticated(req.token)
    /\ req.pk \in DOMAIN recipes /\ recipes[req.pk].user # Caller
    /\ res = NotFound

\* C3: every row has one owner, a registered user; a row that a request
\* inserts is owned by the user who sent the request, whatever the payload
\* says; no request changes the owner of a row
OwnerIsCreatorForEver ==
    [][/\ \A i \in DOMAIN tags' : tags'[i].user \in DOMAIN users'
       /\ \A i \in DOMAIN ingredients' : ingredients'[i].user \in DOMAIN users'
       /\ \A id \in DOMAIN recipes' : recipes'[id].user \in DOMAIN users'
       /\ \A i \in DOMAIN tags' :
              tags'[i].user = IF i \in DOMAIN tags THEN tags[i].user
                              ELSE TokenAuthentication(req'.token)
       /\ \A i \in DOMAIN ingredients' :
              ingredients'[i].user = IF i \in DOMAIN ingredients THEN ingredients[i].user
                                     ELSE TokenAuthentication(req'.token)
       /\ \A id \in DOMAIN recipes' :
              recipes'[id].user = IF id \in DOMAIN recipes THEN recipes[id].user
                                  ELSE TokenAuthentication(req'.token)]_vars

\* C3 witness: a recipe was created from a payload naming the other user
CreatedWithForeignOwnerField ==
    /\ req.endpoint = "recipes" /\ req.action = "create"
    /\ res.status_code = HTTP_201_CREATED
    /\ "user" \in DOMAIN req.data /\ req.data.user # Caller
    /\ recipes[recipe_seq].user = Caller

\* the requests that reach a view with authentication_classes
Protected(r) ==
    \/ r.endpoint = "recipes"
    \/ r.endpoint = "me"
    \/ r.endpoint \in AttrEndpoints /\ r.action \in {"list", "create"}

\* C4: a request to a protected endpoint without a token, or with a token of
\* no user, is answered 401 with no data and changes nothing in the store
UnauthenticatedIsRejected ==
    [][(Protected(req') /\ ~(\E row \in tokens : row.key = req'.token))
       => (/\ res'.status_code = HTTP_401_UNAUTHORIZED
           /\ res'.data = NoData
           /\ store' = store)]_vars

\* C4 witness: a recipe exists and a request on its id with a token of no
\* user was answered 401
UnauthenticatedOnExistingRecipe ==
    /\ req.endpoint = "recipes" /\ req.action \in IdActions
    /\ req.token = BadToken /\ req.pk \in DOMAIN recipes
    /\ res.status_code = HTTP_401_UNAUTHORIZED

\* the join table of the endpoint's relation
Joins(endpoint) == IF endpoint = "tags" THEN recipe_tags ELSE recipe_ingredients

\* the caller's rows that a recipe of the caller links
Assigned(endpoint, u) ==
    {i \in OwnedRows(Queryset(endpoint), u) :
        \E id \in OwnedRecipes(u) : <<id, i>> \in Joins(endpoint)}

\* C5: a list of tags or ingredients with assigned_only=1 holds exactly the
\* caller's rows that a recipe of the caller links, each once
AssignedOnlyListsAssigned ==
    (/\ req.endpoint \in AttrEndpoints /\ req.action = "list"
     /\ req.assigned_only = 1 /\ res.status_code = HTTP_200_OK)
    => (/\ ListedIds = Assigned(req.endpoint, Caller)
        /\ Len(res.data) = Cardinality(ListedIds))

\* C6: on a recipe of the caller that has tags, a PUT without a tags field
\* leaves it without tags; a PATCH without a tags field leaves its tags as
\* they were, gives each field of the payload the payload's value and leaves
\* every other field and relation as it was
PutClearsTagsPatchKeepsThem ==
    [][LET pk == req'.pk
           data == req'.data
       IN  (/\ req'.endpoint = "recipes" /\ res'.status_code = HTTP_200_OK
            /\ req'.action \in {"update", "partial_update"}
            /\ pk \in OwnedRecipes(TokenAuthentication(req'.token))
            /\ TagsOf(recipe_tags, pk) # {}
            /\ "tags" \notin DOMAIN data)
           => /\ req'.action = "update" => TagsOf(recipe_tags', pk) = {}
              /\ req'.action = "partial_update" =>
                    /\ TagsOf(recipe_tags', pk) = TagsOf(recipe_tags, pk)
                    /\ \A f \in {"title", "time_minutes", "price", "link"} :
                           recipes'[pk][f] =
                               IF f \in DOMAIN data THEN data[f] ELSE recipes[pk][f]
                    /\ recipes'[pk].user = recipes[pk].user
                    /\ recipes'[pk].image = recipes[pk].image
                    /\ TagsOf(recipe_ingredients', pk) =
                           IF "ingredients" \in DOMAIN data THEN data.ingredients
                           ELSE TagsOf(recipe_ingredients, pk)]_vars

\* C6 witness: a PATCH of the title alone on a recipe that has a tag: the
\* title is the payload's, the tag and the numbers of the create are still there
PatchedTitleOfTaggedRecipe ==
    /\ req.endpoint = "recipes" /\ req.action = "partial_update"
    /\ res.status_code = HTTP_200_OK
    /\ DOMAIN req.data = {"title"}
    /\ recipes[req.pk].title = req.data.title
    /\ recipes[req.pk].time_minutes = Cake.time_minutes
    /\ TagsOf(recipe_tags, req.pk) # {}

\* C7: a list of recipes is in descending order of id
RecipeListIsDescending ==
    (req.endpoint = "recipes" /\ req.action = "list" /\ res.status_code = HTTP_200_OK)
    => \A i, j \in 1..Len(res.data) : i < j => res.data[i].id > res.data[j].id

\* C8: upload_image by the owner: a payload that is no image is answered 400
\* and changes nothing; an image is answered 200 with the recipe's image, which
\* is the uploaded file, and changes nothing else
UploadImageNeedsAnImage ==
    [][LET pk == req'.pk
           data == req'.data
       IN  (/\ req'.endpoint = "recipes" /\ req'.action = "upload_image"
            /\ IsAuthenticated(req'.token)
            /\ pk \in OwnedRecipes(TokenAuthentication(req'.token)))
           => IF "image" \in DOMAIN data /\ data.image \in Images
              THEN /\ res'.status_code = HTTP_200_OK
                   /\ res'.data = <<[id |-> pk, image |-> data.image]>>
                   /\ recipes' = [recipes EXCEPT ![pk].image = data.image]
                   /\ <<users, tokens, tags, ingredients, recipe_tags,
                        recipe_ingredients, recipe_seq>>' =
                      <<users, tokens, tags, ingredients, recipe_tags,
                        recipe_ingredients, recipe_seq>>
              ELSE /\ res'.status_code = HTTP_400_BAD_REQUEST
                   /\ store' = store]_vars

\* C8 witness: the owner's upload of something that is no image was
\* answered 400 and the recipe still has the image of an earlier upload
BadUploadKeptTheImage ==
    /\ req.endpoint = "recipes" /\ req.action = "upload_image"
    /\ "image" \in DOMAIN req.data /\ req.data.image \notin Images
    /\ res.status_code = HTTP_400_BAD_REQUEST
    /\ req.pk \in OwnedRecipes(Caller)
    /\ recipes[req.pk].image \in Images

\* the row a destroy request names exists and is the caller's
DestroysOwnRow(r) ==
    /\ r.action = "destroy" /\ IsAuthenticated(r.token)
    /\ r.pk \in (IF r.endpoint = "recipes"
                 THEN OwnedRecipes(TokenAuthentication(r.token))
                 ELSE OwnedRows(Queryset(r.endpoint), TokenAuthentication(r.token)))

\* C9 as claimed: a delete of the caller's own tag, ingredient or recipe
\* succeeds, and no join row names the deleted row afterwards
DeleteSucceedsForEveryKind ==
    [][DestroysOwnRow(req')
       => /\ res'.status_code = HTTP_204_NO_CONTENT
          /\ req'.endpoint = "recipes" =>
                 /\ req'.pk \notin DOMAIN recipes'
                 /\ TagsOf(recipe_tags', req'.pk) = {}
                 /\ TagsOf(recipe_ingredients', req'.pk) = {}
          /\ req'.endpoint \in AttrEndpoints =>
                 \A j \in (IF req'.endpoint = "tags" THEN recipe_tags'
                           ELSE recipe_ingredients') : j[2] # req'.pk]_vars

\* C9 amended: a delete of the caller's own recipe is answered 204, removes
\* the recipe and its rows of both join tables and nothing else: tags,
\* ingredients and the other recipes with their links stay.  A delete of a tag
\* or an ingredient has no route: it is answered 404 and changes nothing
DeleteRecipeDetachesOnly ==
    [][DestroysOwnRow(req')
       => IF req'.endpoint = "recipes"
          THEN /\ res'.status_code = HTTP_204_NO_CONTENT
               /\ recipes' = [id \in DOMAIN recipes \ {req'.pk} |-> recipes[id]]
               /\ recipe_tags' = {j \in recipe_tags : j[1] # req'.pk}
               /\ recipe_ingredients' = {j \in recipe_ingredients : j[1] # req'.pk}
               /\ tags' = tags /\ ingredients' = ingredients
               /\ users' = users /\ tokens' = tokens
          ELSE res' = NotFound /\ store' = store]_vars

\* C9 witness: a recipe was deleted by its owner, tags exist, and no join
\* row names the deleted recipe
RecipeDeletedTagsStay ==
    /\ req.endpoint = "recipes" /\ req.action = "destroy"
    /\ res.status_code = HTTP_204_NO_CONTENT
    /\ req.pk \notin DOMAIN recipes /\ req.pk <= recipe_seq
    /\ Len(tags) > 0
    /\ TagsOf(recipe_tags, req.pk) = {}

\* the payload names a user and that user's password
GoodCredentials(data) ==
    /\ data.email # "" /\ data.password # ""
    /\ data.email \in DOMAIN users
    /\ users[data.email].password = make_password(data.password)

\* C10: a token request with a user's email and password is answered 200
\* with the user's token: the one the table holds, or a new one when it holds
\* none; the table never loses or changes a row and never holds two rows of one
\* user or one key.  Any other token request is answered 400 with no token and
\* leaves the table as it was
TokenIsCreatedOnceThenReused ==
    [][req'.endpoint = "token"
       => IF GoodCredentials(req'.data)
          THEN /\ res'.status_code = HTTP_200_OK
               /\ [key |-> res'.data.token, user |-> req'.data.email] \in tokens'
               /\ tokens \subseteq tokens'
               /\ (\E row \in tokens : row.user = req'.data.email) => tokens' = tokens
               /\ \A r1, r2 \in tokens' : (r1.user = r2.user \/ r1.key = r2.key) => r1 = r2
          ELSE /\ res' = BadRequest
               /\ tokens' = tokens]_vars

\* C10 witness: a user who has updated the profile (which takes a token)
\* asked for a token again and got the one of the table
TokenAskedAgain ==
    /\ req.endpoint = "token" /\ res.status_code = HTTP_200_OK
    /\ users[req.data.email].name = "new name"
    /\ [key |-> res.data.token, user |-> req.data.email] \in tokens


\* a register request the serializer must refuse: the password is shorter
\* than the minimum, or a user has the email
ShortPassword(data) == Len(data.password) < MinPasswordLength
EmailExists(data) == data.email \in DOMAIN users

\* C11 as stated: after a register with a password shorter than the minimum
\* the answer is 400 and no user has the email of the request
ShortPasswordLeavesNoUser ==
    (req.endpoint = "create" /\ Len(req.data.password) < MinPasswordLength)
        => res = BadRequest /\ req.data.email \notin DOMAIN users

\* C11: a register with a password shorter than the minimum, or with the
\* email of a user, is answered 400 and leaves the user table and the token
\* table as they were: no row is created, so the email has a row afterwards
\* only if it had one before, and that row keeps its password and its name
FailedRegisterKeepsUsers ==
    [][(req'.endpoint = "create" /\ (ShortPassword(req'.data) \/ EmailExists(req'.data)))
       => /\ res' = BadRequest
          /\ DOMAIN users' = DOMAIN users
          /\ \A e \in DOMAIN users : users'[e] = users[e]
          /\ tokens' = tokens]_vars

\* C11 witness: a user who holds a token was registered again, with another
\* password that is too short, and was refused; the row has its password
ShortRegisterOfExistingUser ==
    /\ req.endpoint = "create" /\ res = BadRequest
    /\ req.data.email \in DOMAIN users
    /\ Len(req.data.password) < MinPasswordLength
    /\ ~check_password(req.data.password, users[req.data.email].password)
    /\ \E row \in tokens : row.user = req.data.email


\* C12: the tags and ingredients nested in a retrieved recipe are rows of the
\* caller, whatever ids the payloads of the caller's creates and updates named
NoForeignRowInResponse ==
    (req.endpoint = "recipes" /\ req.action = "retrieve" /\ res.status_code = HTTP_200_OK)
        => /\ \A t \in res.data[1].tags : tags[t.id].user = Caller
           /\ \A i \in res.data[1].ingredients : ingredients[i.id].user = Caller

====
